---- MODULE Spec2Model ----
(***************************************************************************)
(* A model of the IDXR matching engine's orchestration code:               *)
(*   - services/batch_processing_service.py : BatchProcessingService       *)
(*     (job registry, priority queue, scheduler loop, per-job tasks)       *)
(*   - services/realtime_processor.py : WorkerPool, IntelligentCache and   *)
(*     RealTimeProcessor (added further down)                              *)
(*                                                                         *)
(* The batch service runs on one asyncio event loop: code between two      *)
(* suspension points is one atomic step.  The suspension points of a       *)
(* processing task are the pause wait (asyncio.sleep) and the per-record   *)
(* resolver call (await self._process_record).                             *)
(***************************************************************************)
EXTENDS Integers, Sequences, FiniteSets, Bags, TLC

(* ---------------------------------------------------------------------- *)
(* Bounds of the model                                                     *)
(* ---------------------------------------------------------------------- *)
NumJobs == 2         \* jobs created in the batch specification
MaxRecords == 2      \* largest input list of a job
MaxTasks == 3        \* processing tasks created in the batch specification
NumCapJobs == 4      \* jobs created in the concurrency-cap specification
MaxCapTasks == 4     \* processing tasks created in the concurrency-cap specification

(* ---------------------------------------------------------------------- *)
(* Program constants                                                       *)
(* ---------------------------------------------------------------------- *)
max_concurrent_jobs == 3
SaveEvery == 100

JobStatus == {"queued", "running", "paused", "completed", "failed", "cancelled"}
Terminal == {"completed", "failed", "cancelled"}
JobPriority == {"low", "normal", "high", "urgent"}

\* The rank the specification gives the priorities (urgent > high > normal > low).
PriorityRank(p) ==
    CASE p = "urgent" -> 4
      [] p = "high"   -> 3
      [] p = "normal" -> 2
      [] p = "low"    -> 1

\* Inputs of create_batch_job: a list of n records (saved as a .json file), or
\* a path to a file whose extension is neither .json nor .csv.  What
\* _process_record makes of a record is a function of the record: in the
\* input lists the records at even positions match, the others do not.
RecordOutcome(i) == IF i % 2 = 0 THEN "success" ELSE "error"
ListInputs == { [kind |-> "list", n |-> n] : n \in 1..MaxRecords }
BadInput == [kind |-> "unsupported", n |-> 0]
JobInputs == ListInputs \cup {BadInput}

VARIABLES
    jobs,           \* self.jobs: job_id -> BatchJob
    job_queue,      \* self.job_queue: list of job ids
    running_jobs,   \* self.running_jobs: list of job ids
    tasks,          \* the live _process_job tasks (a bag of task states)
    ntasks,         \* how many tasks asyncio.create_task has created
    resumed         \* history: ids for which resume_job has returned True

batchVars == <<jobs, job_queue, running_jobs, tasks, ntasks, resumed>>

\* State of the real-time path (WorkerPool, IntelligentCache,
\* RealTimeProcessor), described with its actions further down.
VARIABLES
    request_queue,     \* the PriorityQueue's heap list of [prio, req] entries
    result_callbacks,  \* request_id -> callback (named by the request it serves)
    workers,           \* worker -> [pc, req]
    cache,             \* IntelligentCache: key -> cached matches
    requests,          \* request -> ProcessingRequest passed to the processor
    ppc,               \* request -> where process_identity_resolution stands
    future,            \* request -> state of its result_future
    result,            \* request -> what process_identity_resolution returned
    invoked,           \* request -> times its callback was called
    running,           \* WorkerPool.running
    pills              \* poison pills stop() has still to put

poolVars == <<request_queue, result_callbacks, workers, cache, requests, ppc,
              future, result, invoked, running, pills>>

\* State of an IntelligentCache taken on its own, with its clock.
VARIABLES
    cache_entries,     \* IntelligentCache.cache: key -> cached results
    access_times,      \* IntelligentCache.access_times
    expiry_times,      \* IntelligentCache.expiry_times
    now,               \* time.time()
    returned,          \* the last call: its key, what it returned (0 for None)
                       \* and the keys it removed
    history            \* what the callers saw: the puts still in force (TTL not
                       \* elapsed, not evicted) and the last access of each entry

cacheVars == <<cache_entries, access_times, expiry_times, now, returned, history>>

\* State of the rate gate (RedisRateLimiter in its in-memory mode) for one
\* client, with its clock.
VARIABLES
    local_cache,       \* limit -> deque of the timestamps it counts
    current_time,      \* time.time()
    throttle,          \* outcome of the last check_rate_limit
    admitted           \* timestamps of the requests the gate let through

rateVars == <<local_cache, current_time, throttle, admitted>>

\* State of one call of resolve_identity.
VARIABLES
    resolve_input,     \* the matchers' outputs, match_threshold, use_ml
    resolve_output     \* the response's matches, once the call has returned

resolveVars == <<resolve_input, resolve_output>>

\* State of a HouseholdService.
VARIABLES
    households_cache,  \* household_id -> Household (its members, household_size)
    nsplit             \* households split_household has created

householdVars == <<households_cache, nsplit>>

\* State of one call of DataQualityService.assess_data_quality.
VARIABLES
    quality_input,     \* the record assessed
    quality_output     \* the report's overall_quality_score, once returned

qualityVars == <<quality_input, quality_output>>

\* What the actions of one component leave alone.
outsideBatch == <<poolVars, cacheVars, rateVars, resolveVars, householdVars, qualityVars>>
outsidePool == <<batchVars, cacheVars, rateVars, resolveVars, householdVars, qualityVars>>
outsideCache == <<batchVars, poolVars, rateVars, resolveVars, householdVars, qualityVars>>
outsideRate == <<batchVars, poolVars, cacheVars, resolveVars, householdVars, qualityVars>>
outsideResolve == <<batchVars, poolVars, cacheVars, rateVars, householdVars, qualityVars>>
outsideHousehold == <<batchVars, poolVars, cacheVars, rateVars, resolveVars, qualityVars>>
outsideQuality == <<batchVars, poolVars, cacheVars, rateVars, resolveVars, householdVars>>

(* ---------------------------------------------------------------------- *)
(* List helpers (Python list semantics)                                    *)
(* ---------------------------------------------------------------------- *)
InList(x, s) == \E k \in 1..Len(s) : s[k] = x

\* list.remove(x): removes the first occurrence.
RemoveFirst(s, x) ==
    IF ~InList(x, s) THEN s
    ELSE LET k == CHOOSE i \in 1..Len(s) : s[i] = x /\ \A h \in 1..(i-1) : s[h] # x
         IN  SubSeq(s, 1, k-1) \o SubSeq(s, k+1, Len(s))

\* list.insert(pos, x) with a 0-based position.
InsertAt(s, pos, x) == SubSeq(s, 1, pos) \o <<x>> \o SubSeq(s, pos+1, Len(s))

(* ---------------------------------------------------------------------- *)
(* BatchProcessingService                                                  *)
(* ---------------------------------------------------------------------- *)
\* _add_to_queue: urgent at the front, high after the urgent ones, anything
\* else appended.
add_to_queue(queue, js, job_id) ==
    IF js[job_id].priority = "urgent" THEN InsertAt(queue, 0, job_id)
    ELSE IF js[job_id].priority = "high"
         THEN LET urgent_count ==
                      Cardinality({k \in 1..Len(queue) : js[queue[k]].priority = "urgent"})
              IN  InsertAt(queue, urgent_count, job_id)
         ELSE Append(queue, job_id)

\* _get_next_job: pops entries until one with status queued is found.
RECURSIVE get_next_job(_, _)
get_next_job(queue, js) ==
    IF queue = << >> THEN [job_id |-> 0, queue |-> queue]
    ELSE IF js[Head(queue)].status = "queued"
         THEN [job_id |-> Head(queue), queue |-> Tail(queue)]
         ELSE get_next_job(Tail(queue), js)

\* create_batch_job: the new job is registered as queued and enqueued.
create_batch_job(job_id, priority, input) ==
    /\ job_id \notin DOMAIN jobs
    /\ \A k \in 1..(job_id - 1) : k \in DOMAIN jobs
    /\ LET job == [status |-> "queued",
                   priority |-> priority,
                   total_records |-> input.n,
                   processed_records |-> 0,
                   successful_records |-> 0,
                   failed_records |-> 0,
                   input_file_path |-> input.kind,
                   error_message |-> ""]
           js == [k \in DOMAIN jobs \cup {job_id} |->
                     IF k = job_id THEN job ELSE jobs[k]]
       IN  /\ jobs' = js
           /\ job_queue' = add_to_queue(job_queue, js, job_id)
    /\ UNCHANGED <<running_jobs, tasks, ntasks, resumed>>
    /\ UNCHANGED outsideBatch

\* What cancel_job / pause_job / resume_job return for the current state.
cancel_job_result(job_id) ==
    job_id \in DOMAIN jobs /\ jobs[job_id].status \notin Terminal

pause_job_result(job_id) ==
    job_id \in DOMAIN jobs /\ jobs[job_id].status = "running"

\* A resume_job that forgets to look at the status being paused.
resume_job_result_any(job_id) ==
    job_id \in DOMAIN jobs /\ jobs[job_id].status \in {"paused", "cancelled", "failed"}

resume_job_result(job_id) ==
    job_id \in DOMAIN jobs /\ jobs[job_id].status = "paused"

\* cancel_job (the True branch; the False branch changes nothing).
cancel_job(job_id) ==
    /\ cancel_job_result(job_id)
    /\ jobs' = [jobs EXCEPT ![job_id].status = "cancelled"]
    /\ job_queue' = RemoveFirst(job_queue, job_id)
    /\ running_jobs' = RemoveFirst(running_jobs, job_id)
    /\ UNCHANGED <<tasks, ntasks, resumed>>
    /\ UNCHANGED outsideBatch

\* pause_job (the True branch).
pause_job(job_id) ==
    /\ pause_job_result(job_id)
    /\ jobs' = [jobs EXCEPT ![job_id].status = "paused"]
    /\ UNCHANGED <<job_queue, running_jobs, tasks, ntasks, resumed>>
    /\ UNCHANGED outsideBatch

\* resume_job (the True branch): back to queued and into the queue.
resume_job(job_id) ==
    /\ resume_job_result(job_id)
    /\ LET js == [jobs EXCEPT ![job_id].status = "queued"]
       IN  /\ jobs' = js
           /\ job_queue' = add_to_queue(job_queue, js, job_id)
    /\ resumed' = resumed \cup {job_id}
    /\ UNCHANGED <<running_jobs, tasks, ntasks>>
    /\ UNCHANGED outsideBatch

\* A task's state: the job, where it is suspended, the index of the record
\* at hand and whether its results list is non-empty.
NewTask(job_id) == [job |-> job_id, pc |-> "created", i |-> 0, pending |-> FALSE]

TasksOf(job_id) == {tk \in BagToSet(tasks) : tk.job = job_id}

\* One iteration of _job_processor with an effect: _get_next_job, then
\* _start_job (status running, running_jobs.append, asyncio.create_task).
job_processor(maxTasks) ==
    /\ Len(running_jobs) < max_concurrent_jobs
    /\ job_queue # << >>
    /\ LET nxt == get_next_job(job_queue, jobs)
       IN  /\ job_queue' = nxt.queue
           /\ IF nxt.job_id # 0
              THEN /\ ntasks < maxTasks
                   /\ jobs' = [jobs EXCEPT ![nxt.job_id].status = "running"]
                   /\ running_jobs' = Append(running_jobs, nxt.job_id)
                   /\ tasks' = tasks (+) SetToBag({NewTask(nxt.job_id)})
                   /\ ntasks' = ntasks + 1
              ELSE UNCHANGED <<jobs, running_jobs, tasks, ntasks>>
    /\ UNCHANGED resumed
    /\ UNCHANGED outsideBatch

(* ---------------------------------------------------------------------- *)
(* _process_job, one atomic step per stretch between suspension points     *)
(* ---------------------------------------------------------------------- *)
\* The except branch: the job is marked failed whatever its status was.
\* error_message names the call that raised.
FailJob(js, job_id, e) ==
    [js EXCEPT ![job_id].status = "failed", ![job_id].error_message = e]

\* After the record loop: the final save of the pending results (which may
\* raise), then completion unless the job was cancelled.
AfterLoop(js, job_id, pending, saveOk) ==
    IF pending /\ ~saveOk THEN FailJob(js, job_id, "_save_partial_results")
    ELSE IF js[job_id].status # "cancelled"
         THEN [js EXCEPT ![job_id].status = "completed"]
         ELSE js

\* A record loop without the pause wait.
LoopTopNoPause(js, job_id, i, pending, saveOk) ==
    IF i = js[job_id].total_records \/ js[job_id].status = "cancelled"
    THEN [jobs |-> AfterLoop(js, job_id, pending, saveOk), task |-> << >>]
    ELSE [jobs |-> js,
          task |-> <<[job |-> job_id, pc |-> "record", i |-> i, pending |-> pending]>>]

\* The top of the record loop for index i: leave the loop at the end of the
\* input or on cancel, wait while paused, otherwise start the record.  The
\* task field is << >> when the task has ended.
LoopTop(js, job_id, i, pending, saveOk) ==
    IF i = js[job_id].total_records \/ js[job_id].status = "cancelled"
    THEN [jobs |-> AfterLoop(js, job_id, pending, saveOk), task |-> << >>]
    ELSE IF js[job_id].status = "paused"
         THEN [jobs |-> js,
               task |-> <<[job |-> job_id, pc |-> "paused", i |-> i, pending |-> pending]>>]
         ELSE [jobs |-> js,
               task |-> <<[job |-> job_id, pc |-> "record", i |-> i, pending |-> pending]>>]

\* The task moves on to the state in nxt, or ends when nxt is empty; the
\* finally clause then takes one occurrence of the job out of running_jobs.
TaskStep(tk, nxt) ==
    /\ tasks' = IF nxt = << >>
                THEN tasks (-) SetToBag({tk})
                ELSE (tasks (-) SetToBag({tk})) (+) SetToBag({nxt[1]})
    /\ running_jobs' = IF nxt = << >>
                       THEN RemoveFirst(running_jobs, tk.job)
                       ELSE running_jobs

\* First run of the task: _load_input_data, then the loop top for record 0.
process_job_begin(tk) ==
    /\ tk.pc = "created"
    /\ IF jobs[tk.job].input_file_path = "unsupported"
       THEN /\ jobs' = FailJob(jobs, tk.job, "_load_input_data")
            /\ TaskStep(tk, << >>)
       ELSE LET r == LoopTop(jobs, tk.job, 0, FALSE, TRUE)
            IN  /\ jobs' = r.jobs
                /\ TaskStep(tk, r.task)
    /\ UNCHANGED <<job_queue, ntasks, resumed>>
    /\ UNCHANGED outsideBatch

\* The pause wait ends: break on cancel, otherwise go on with the record.
process_job_wake(tk) ==
    /\ tk.pc = "paused"
    /\ jobs[tk.job].status # "paused"
    /\ \E saveOk \in BOOLEAN :
         IF jobs[tk.job].status = "cancelled"
         THEN /\ jobs' = AfterLoop(jobs, tk.job, tk.pending, saveOk)
              /\ TaskStep(tk, << >>)
         ELSE /\ jobs' = jobs
              /\ TaskStep(tk, <<[tk EXCEPT !.pc = "record"]>>)
    /\ UNCHANGED <<job_queue, ntasks, resumed>>
    /\ UNCHANGED outsideBatch

\* Counters that take every record for a success.
CountRecord_all_successful(js, job_id, outcome) ==
    [js EXCEPT ![job_id].successful_records = @ + 1,
               ![job_id].processed_records = @ + 1]

\* Counters after _process_record returned or raised.
CountRecord(js, job_id, outcome) ==
    LET js1 == IF outcome = "success"
               THEN [js EXCEPT ![job_id].successful_records = @ + 1]
               ELSE [js EXCEPT ![job_id].failed_records = @ + 1]
    IN  [js1 EXCEPT ![job_id].processed_records = @ + 1]

\* _process_record returns: counters, the periodic save, then the loop top
\* for the next record.
process_job_record(tk) ==
    /\ tk.pc = "record"
    /\ \E saveOk \in BOOLEAN :
         LET js == CountRecord(jobs, tk.job, RecordOutcome(tk.i))
         IN  IF tk.i % SaveEvery = 0 /\ ~saveOk
             THEN /\ jobs' = FailJob(js, tk.job, "_save_partial_results")
                  /\ TaskStep(tk, << >>)
             ELSE LET r == LoopTop(js, tk.job, tk.i + 1, tk.i % SaveEvery # 0, saveOk)
                  IN  /\ jobs' = r.jobs
                      /\ TaskStep(tk, r.task)
    /\ UNCHANGED <<job_queue, ntasks, resumed>>
    /\ UNCHANGED outsideBatch

(* ---------------------------------------------------------------------- *)
(* Specifications of the batch service                                     *)
(* ---------------------------------------------------------------------- *)
BatchInit ==
    /\ jobs = << >>
    /\ job_queue = << >>
    /\ running_jobs = << >>
    /\ tasks = EmptyBag
    /\ ntasks = 0
    /\ resumed = {}

BatchOps(maxTasks) ==
    \/ \E j \in DOMAIN jobs : cancel_job(j)
    \/ \E j \in DOMAIN jobs : pause_job(j)
    \/ \E j \in DOMAIN jobs : resume_job(j)
    \/ job_processor(maxTasks)
    \/ \E tk \in BagToSet(tasks) : process_job_begin(tk)
    \/ \E tk \in BagToSet(tasks) : process_job_wake(tk)
    \/ \E tk \in BagToSet(tasks) : process_job_record(tk)

BatchNext ==
    \/ \E j \in 1..NumJobs, p \in JobPriority, inp \in JobInputs :
           create_batch_job(j, p, inp)
    \/ BatchOps(MaxTasks)

\* The same service fed one-record jobs of normal priority, enough of them to
\* fill the scheduler's cap and leave one waiting (CapSpec below).
CapNext ==
    \/ \E j \in 1..NumCapJobs :
           create_batch_job(j, "normal", [kind |-> "list", n |-> 1])
    \/ BatchOps(MaxCapTasks)


(* ---------------------------------------------------------------------- *)
(* Properties of the batch service                                         *)
(* ---------------------------------------------------------------------- *)
\* Occurrences of x in the list s.
Count(x, s) == Cardinality({k \in 1..Len(s) : s[k] = x})

\* Tasks of a job that are inside `await self._process_record`.
InFlight(tks, job_id) ==
    BagCardinality([tk \in {x \in BagToSet(tks) : x.job = job_id /\ x.pc = "record"}
                       |-> CopiesIn(tk, tks)])

\* C1: once a job is completed, failed or cancelled, cancel_job, pause_job
\* and resume_job return False for it and its status never changes again.
C1_TerminalIsFinal ==
    [][\A j \in DOMAIN jobs :
          jobs[j].status \in Terminal =>
             /\ ~cancel_job_result(j)
             /\ ~pause_job_result(j)
             /\ ~resume_job_result(j)
             /\ jobs'[j].status = jobs[j].status]_batchVars

\* C2: a job in a terminal state has processed = successful + failed and
\* processed <= total.
C2_TerminalCounters ==
    \A j \in DOMAIN jobs :
       jobs[j].status \in Terminal =>
          /\ jobs[j].processed_records
                = jobs[j].successful_records + jobs[j].failed_records
          /\ jobs[j].processed_records <= jobs[j].total_records

\* C3: once a job is cancelled or failed no step adds its id to job_queue;
\* the job stays in a terminal status, from which no step adds it either.
C3_NoRequeue ==
    [][\A j \in DOMAIN jobs :
          jobs[j].status \in Terminal =>
             /\ jobs'[j].status \in Terminal
             /\ Count(j, job_queue') <= Count(j, job_queue)]_batchVars

\* C3 witness: a job that went through pause and resume has failed, its id
\* is not in the queue, and another job is waiting there.
C3_Witness ==
    \E j \in resumed :
       /\ jobs[j].status = "failed"
       /\ ~InList(j, job_queue)
       /\ job_queue # << >>

\* C4: a job that was paused and resumed and has ended completed has
\* successful + failed = total.
C4_ResumedJobCountsEachRecordOnce ==
    \A j \in resumed :
       (jobs[j].status = "completed" /\ TasksOf(j) = {}) =>
          jobs[j].successful_records + jobs[j].failed_records = jobs[j].total_records

C9_StartsInPriorityOrder ==
    [][\A j \in DOMAIN jobs :
          (jobs[j].status = "queued" /\ jobs'[j].status = "running") =>
             ~\E k \in 1..Len(job_queue') :
                 /\ jobs'[job_queue'[k]].status = "queued"
                 /\ PriorityRank(jobs'[job_queue'[k]].priority)
                       > PriorityRank(jobs[j].priority)]_batchVars

NumRequests == 2        \* requests of the real-time specification
NumRequestIds == 2      \* request ids their callers choose from
NumWorkers == 2         \* worker threads
NumQueueRequests == 4   \* requests of the queue-order specification
NumStopRequests == 3    \* requests of the shutdown specification
max_queue_size == 3     \* WorkerPool(max_queue_size=...), the queue's capacity

\* ProcessingPriority values: CRITICAL = 1 ... LOW = 4.
ProcessingPriority == 1..4


(* ---------------------------------------------------------------------- *)
(* heapq on (priority, request) tuples, as queue.PriorityQueue uses it     *)
(* ---------------------------------------------------------------------- *)
\* A queue entry; req = 0 stands for None (the poison pill).
Entry(prio, req) == [prio |-> prio, req |-> req]

\* (pa, ra) < (pb, rb) on tuples: the priorities decide when they differ;
\* equal priorities and the same object compare equal; otherwise the two
\* ProcessingRequest objects are compared with <, which raises TypeError
\* (the dataclass defines no ordering).
TupleLess(a, b) ==
    IF a.prio # b.prio THEN (IF a.prio < b.prio THEN "lt" ELSE "ge")
    ELSE IF a.req = b.req THEN "ge"
    ELSE "raise"

\* Swap of two 0-based positions of a list.
Swap(h, x, y) == [h EXCEPT ![x + 1] = h[y + 1], ![y + 1] = h[x + 1]]

\* heapq's siftdown: the entry at pos moves towards startpos while it is
\* less than its parent.  raised tells that a comparison raised; the list
\* keeps the swaps done so far.
RECURSIVE siftdown(_, _, _)
siftdown(h, startpos, pos) ==
    IF pos > startpos
    THEN LET parentpos == (pos - 1) \div 2
             cmp == TupleLess(h[pos + 1], h[parentpos + 1])
         IN  IF cmp = "raise" THEN [heap |-> h, raised |-> TRUE]
             ELSE IF cmp = "ge" THEN [heap |-> h, raised |-> FALSE]
             ELSE siftdown(Swap(h, pos, parentpos), startpos, parentpos)
    ELSE [heap |-> h, raised |-> FALSE]

\* heapq's siftup: the smaller child moves up until a leaf is reached, then
\* the entry is sifted down from there.
RECURSIVE siftup_from(_, _, _)
siftup_from(h, startpos, pos) ==
    LET endpos == Len(h)
        limit == endpos \div 2
    IN  IF pos < limit
        THEN LET childpos == 2 * pos + 1
                 cmp == IF childpos + 1 < endpos
                        THEN TupleLess(h[childpos + 1], h[childpos + 2])
                        ELSE "lt"
                 child == IF cmp = "ge" THEN childpos + 1 ELSE childpos
             IN  IF cmp = "raise" THEN [heap |-> h, raised |-> TRUE]
                 ELSE siftup_from(Swap(h, child, pos), startpos, child)
        ELSE siftdown(h, startpos, pos)

siftup(h, pos) == siftup_from(h, pos, pos)

\* heapq.heappush: append, then siftdown from the end.
heappush(h, item) == siftdown(Append(h, item), 0, Len(h))

\* heapq.heappop on a non-empty list: the last entry replaces the root and
\* is sifted; when a comparison raises the root entry is lost.
heappop(h) ==
    LET lastelt == h[Len(h)]
        rest == SubSeq(h, 1, Len(h) - 1)
    IN  IF rest = << >>
        THEN [heap |-> rest, raised |-> FALSE, item |-> lastelt]
        ELSE LET r == siftup([rest EXCEPT ![1] = lastelt], 0)
             IN  [heap |-> r.heap, raised |-> r.raised, item |-> rest[1]]


\* queue.PriorityQueue.put(item, timeout=1): queue.Full when the queue stays
\* at capacity, otherwise heappush, whose TypeError leaves the entry in the
\* list.
queue_put(h, item) ==
    IF Len(h) >= max_queue_size
    THEN [heap |-> h, outcome |-> "full"]
    ELSE LET r == heappush(h, item)
         IN  [heap |-> r.heap, outcome |-> IF r.raised THEN "error" ELSE "ok"]

(* ---------------------------------------------------------------------- *)
(* Requests, matcher results, cache keys                                   *)
(* ---------------------------------------------------------------------- *)
\* str.lower() on the names used below.
Lower(str) ==
    CASE str = "John" -> "john"
      [] str = "Doe"  -> "doe"
      [] OTHER -> str

\* Demographic data of the requests: one record the deterministic matcher
\* finds among its identities, one it does not.
KnownPerson == [first_name |-> "John", last_name |-> "Doe", dob |-> "1990-01-15"]
UnknownPerson == [first_name |-> "Ann", last_name |-> "Lee", dob |-> "2000-02-02"]
PoolData == {KnownPerson, UnknownPerson}

\* DeterministicMatcher.match on data without exact-match fields: the
\* composite key (first_name, last_name, dob), compared in lower case,
\* against the stored identity John Doe.
Matches(data) ==
    IF /\ Lower(data.first_name) = "john"
       /\ Lower(data.last_name) = "doe"
       /\ Lower(data.dob) = "1990-01-15"
    THEN <<"IDX001234567">>
    ELSE << >>

\* IntelligentCache._generate_key: the digest of json.dumps(sort_keys=True),
\* i.e. of the field/value pairs in sorted field order.
SortedFields == <<"dob", "first_name", "last_name">>
generate_key(data) == [k \in 1..Len(SortedFields) |-> <<SortedFields[k], data[SortedFields[k]]>>]

\* A ProcessingResult, reduced to status, algorithm_used and matches.
Res(status, algorithm, matches) ==
    [status |-> status, algorithm_used |-> algorithm, matches |-> matches]
NoResult == Res("none", "none", << >>)

\* IntelligentCache.get: the cached matches or << >> (None).
cache_get(c, data) ==
    IF generate_key(data) \in DOMAIN c THEN c[generate_key(data)] ELSE << >>

\* IntelligentCache.put (the capacity of 10000 entries is not reached here).
cache_put(c, data, matches) ==
    [k \in DOMAIN c \cup {generate_key(data)} |->
        IF k = generate_key(data) THEN matches ELSE c[k]]

(* ---------------------------------------------------------------------- *)
(* RealTimeProcessor.process_identity_resolution and WorkerPool            *)
(* ---------------------------------------------------------------------- *)
Started == {r \in DOMAIN ppc : ppc[r] # "new"}

\* The event loop is inside the synchronous stretch of some request.
LoopBusy == \E r \in DOMAIN ppc : ppc[r] = "submitted"

\* submit_request up to the end of request_queue.put: on queue.Full or a
\* TypeError it returns False and the caller gets a queue_full result.
submit_put(r, request) ==
    LET put == queue_put(request_queue, Entry(request.priority, r))
    IN  /\ request_queue' = put.heap
        /\ IF put.outcome = "ok"
           THEN /\ ppc' = [ppc EXCEPT ![r] = "submitted"]
                /\ UNCHANGED result
           ELSE /\ ppc' = [ppc EXCEPT ![r] = "done"]
                /\ result' = [result EXCEPT ![r] = Res("failed", "queue_full", << >>)]

\* WorkerPool.submit_request called for the r-th request (requests are
\* numbered in the order of their submission).
submit_request(r, request) ==
    /\ r \in DOMAIN ppc
    /\ ppc[r] = "new"
    /\ \A k \in DOMAIN ppc : k < r => ppc[k] # "new"
    /\ ~LoopBusy
    /\ requests' = [requests EXCEPT ![r] = request]
    /\ submit_put(r, request)
    /\ UNCHANGED <<result_callbacks, workers, cache, future, invoked>>
    /\ UNCHANGED <<running, pills>>
    /\ UNCHANGED outsidePool

\* Start of process_identity_resolution up to request_queue.put inside
\* submit_request: cache lookup, then the submission.
resolve_begin(r, request) ==
    /\ r \in DOMAIN ppc
    /\ ppc[r] = "new"
    /\ \A k \in DOMAIN ppc : k < r => ppc[k] # "new"
    /\ ~LoopBusy
    /\ requests' = [requests EXCEPT ![r] = request]
    /\ LET cached == cache_get(cache, request.demographic_data)
       IN  IF cached # << >>
           THEN /\ result' = [result EXCEPT ![r] = Res("completed", "cache", cached)]
                /\ ppc' = [ppc EXCEPT ![r] = "done"]
                /\ UNCHANGED request_queue
           ELSE submit_put(r, request)
    /\ UNCHANGED <<result_callbacks, workers, cache, future, invoked>>
    /\ UNCHANGED <<running, pills>>
    /\ UNCHANGED outsidePool

\* submit_request after the put: the callback is registered under the
\* request id; process_identity_resolution then waits on its future.
resolve_register(r) ==
    /\ r \in DOMAIN ppc
    /\ ppc[r] = "submitted"
    /\ LET rid == requests[r].request_id
       IN  result_callbacks' =
              [k \in DOMAIN result_callbacks \cup {rid} |->
                  IF k = rid THEN r ELSE result_callbacks[k]]
    /\ ppc' = [ppc EXCEPT ![r] = "waiting"]
    /\ UNCHANGED <<request_queue, workers, cache, requests, future, result,
                   invoked>>
    /\ UNCHANGED <<running, pills>>
    /\ UNCHANGED outsidePool

\* A future that no longer accepts a result: its result was consumed by
\* wait_for, or wait_for cancelled it on timeout.
ClosedFuture == [state |-> "closed", value |-> NoResult]

\* asyncio.wait_for returns the future's result: successful results with
\* matches are cached, the result is returned.
resolve_result(r) ==
    /\ r \in DOMAIN ppc
    /\ ppc[r] = "waiting"
    /\ ~LoopBusy
    /\ future[r].state = "done"
    /\ LET res == future[r].value
       IN  /\ cache' = IF res.status = "completed" /\ res.matches # << >>
                       THEN cache_put(cache, requests[r].demographic_data, res.matches)
                       ELSE cache
           /\ result' = [result EXCEPT ![r] = res]
    /\ future' = [future EXCEPT ![r] = ClosedFuture]
    /\ ppc' = [ppc EXCEPT ![r] = "done"]
    /\ UNCHANGED <<request_queue, result_callbacks, workers, requests, invoked>>
    /\ UNCHANGED <<running, pills>>
    /\ UNCHANGED outsidePool

\* asyncio.wait_for times out: the future is cancelled, a timeout result is
\* returned.
resolve_timeout(r) ==
    /\ r \in DOMAIN ppc
    /\ ppc[r] = "waiting"
    /\ ~LoopBusy
    /\ future[r].state = "pending"
    /\ future' = [future EXCEPT ![r] = ClosedFuture]
    /\ result' = [result EXCEPT ![r] = Res("timeout", "timeout", << >>)]
    /\ ppc' = [ppc EXCEPT ![r] = "done"]
    /\ UNCHANGED <<request_queue, result_callbacks, workers, cache, requests,
                   invoked>>
    /\ UNCHANGED <<running, pills>>
    /\ UNCHANGED outsidePool

\* The cleanup thread (or the lazy check of get) drops an entry whose TTL
\* has elapsed.
cache_expire(key) ==
    /\ key \in DOMAIN cache
    /\ cache' = [k \in DOMAIN cache \ {key} |-> cache[k]]
    /\ UNCHANGED <<request_queue, result_callbacks, workers, requests, ppc,
                   future, result, invoked>>
    /\ UNCHANGED <<running, pills>>
    /\ UNCHANGED outsidePool

\* _worker_loop: request_queue.get by a worker that found running true at
\* the head of the loop.  A poison pill ends the loop.  A TypeError raised
\* by heappop is caught by the loop's except clause and the worker goes
\* back to the head of the loop, where it leaves once running is false.
worker_get(w) ==
    /\ workers[w].pc = "idle"
    /\ request_queue # << >>
    /\ LET got == heappop(request_queue)
       IN  /\ request_queue' = got.heap
           /\ workers' = IF got.raised
                         THEN [workers EXCEPT ![w].pc = IF running THEN "idle" ELSE "exited"]
                         ELSE IF got.item.req = 0
                         THEN [workers EXCEPT ![w] = [pc |-> "exited", req |-> 0]]
                         ELSE [workers EXCEPT ![w] = [pc |-> "got", req |-> got.item.req]]
    /\ UNCHANGED <<result_callbacks, cache, requests, ppc, future, result,
                   invoked>>
    /\ UNCHANGED <<running, pills>>
    /\ UNCHANGED outsidePool

\* A callback lookup that leaves the callback registered.
take_callback_keep(cbs, rid) ==
    [callback |-> IF rid \in DOMAIN cbs THEN cbs[rid] ELSE 0, callbacks |-> cbs]

\* result_callbacks.pop(request_id, None); callback 0 stands for None.
take_callback(cbs, rid) ==
    [callback |-> IF rid \in DOMAIN cbs THEN cbs[rid] ELSE 0,
     callbacks |-> [k \in DOMAIN cbs \ {rid} |-> cbs[k]]]

\* _worker_loop after the get: _process_request, then the callback popped
\* from result_callbacks is called; it sets the result of a pending future
\* (set_result on a future that is done or cancelled raises, which the
\* loop's except clause swallows).  Back at the head of the loop the worker
\* leaves once running is false.
worker_finish(w) ==
    /\ workers[w].pc = "got"
    /\ \E ok \in BOOLEAN :
         LET r == workers[w].req
             res == IF ok
                    THEN Res("completed", "deterministic", Matches(requests[r].demographic_data))
                    ELSE Res("failed", "error", << >>)
             taken == take_callback(result_callbacks, requests[r].request_id)
             cb == taken.callback
         IN  /\ result_callbacks' = taken.callbacks
             /\ IF cb # 0
                THEN /\ invoked' = [invoked EXCEPT ![cb] = @ + 1]
                     /\ future' = IF future[cb].state = "pending"
                                  THEN [future EXCEPT ![cb] = [state |-> "done", value |-> res]]
                                  ELSE future
                ELSE UNCHANGED <<invoked, future>>
    /\ workers' = [workers EXCEPT ![w] = [pc |-> IF running THEN "idle" ELSE "exited",
                                          req |-> 0]]
    /\ UNCHANGED <<request_queue, cache, requests, ppc, result>>
    /\ UNCHANGED <<running, pills>>
    /\ UNCHANGED outsidePool


\* _worker_loop: the get times out on an empty queue (queue.Empty, caught)
\* and the head of the loop finds running false.
worker_exit(w) ==
    /\ workers[w].pc = "idle"
    /\ request_queue = << >>
    /\ ~running
    /\ workers' = [workers EXCEPT ![w] = [pc |-> "exited", req |-> 0]]
    /\ UNCHANGED <<request_queue, result_callbacks, cache, requests, ppc, future,
                   result, invoked, running, pills>>
    /\ UNCHANGED outsidePool

\* WorkerPool.stop up to its loop: running becomes false.
stop_begin ==
    /\ running
    /\ ~LoopBusy
    /\ running' = FALSE
    /\ pills' = NumWorkers
    /\ UNCHANGED <<request_queue, result_callbacks, workers, cache, requests, ppc,
                   future, result, invoked>>
    /\ UNCHANGED outsidePool

\* One round of stop's loop: put((0, None), timeout=1), any exception
\* (queue.Full) passed over.
stop_put ==
    /\ pills > 0
    /\ request_queue' = queue_put(request_queue, Entry(0, 0)).heap
    /\ pills' = pills - 1
    /\ UNCHANGED <<result_callbacks, workers, cache, requests, ppc, future, result,
                   invoked, running>>
    /\ UNCHANGED outsidePool

(* ====================================================================== *)
(* IntelligentCache on its own: get, put, LRU eviction, TTL                *)
(* ====================================================================== *)
max_size == 2           \* IntelligentCache(max_size=...)
default_ttl == 2        \* IntelligentCache(default_ttl=...), in clock ticks
MaxTime == 3            \* the clock stops here
NumResults == 2         \* result lists the callers store

\* The stored identity written in lower case: the matcher finds it as well.
KnownPersonLower == [first_name |-> "john", last_name |-> "doe", dob |-> "1990-01-15"]
CacheData == {KnownPerson, KnownPersonLower, UnknownPerson}

\* ttl arguments of put; 0 stands for None (`ttl or self.default_ttl`).
CacheTtls == {0, 1}

\* dict.pop(key, None) and dict[key] = value.
Drop(f, key) == [k \in DOMAIN f \ {key} |-> f[k]]
Store(f, key, value) == [k \in DOMAIN f \cup {key} |-> IF k = key THEN value ELSE f[k]]

\* A dictionary without the keys of a set.
Forget(f, keys) == [k \in DOMAIN f \ keys |-> f[k]]

\* The cache's three dictionaries as one value.
CacheState ==
    [cache |-> cache_entries, access_times |-> access_times, expiry_times |-> expiry_times]

\* _remove_key
remove_key(c, key) ==
    [cache |-> Drop(c.cache, key),
     access_times |-> Drop(c.access_times, key),
     expiry_times |-> Drop(c.expiry_times, key)]

\* The keys min(access_times, key=...) can return: those of the least
\* access time (among equal times the dictionary's order decides, which is
\* left open here).
lru_keys(c) ==
    {k \in DOMAIN c.access_times :
        \A j \in DOMAIN c.access_times : c.access_times[k] <= c.access_times[j]}

\* The keys max(...) would return.
evict_candidates_newest(c) ==
    {k \in DOMAIN c.access_times :
        \A j \in DOMAIN c.access_times : c.access_times[k] >= c.access_times[j]}

\* _evict_lru: the keys it may remove; none when access_times is empty.
evict_candidates(c) == lru_keys(c)

SetCacheState(c) ==
    /\ cache_entries' = c.cache
    /\ access_times' = c.access_times
    /\ expiry_times' = c.expiry_times

\* An expiry check that never finds an entry expired.
expired_never(c, key, t) == FALSE

\* get's expiry check: time.time() > self.expiry_times.get(key, 0)
expired(c, key, t) ==
    t > (IF key \in DOMAIN c.expiry_times THEN c.expiry_times[key] ELSE 0)

\* IntelligentCache.get; the value 0 stands for None.
IntelligentCache_get(data) ==
    LET key == generate_key(data)
        c == CacheState
    IN  /\ IF key \notin DOMAIN c.cache
           THEN /\ returned' = [op |-> "get", key |-> key, value |-> 0, removed |-> {}]
                /\ UNCHANGED <<cache_entries, access_times, expiry_times, history>>
           ELSE IF expired(c, key, now)
           THEN /\ SetCacheState(remove_key(c, key))
                /\ returned' = [op |-> "get", key |-> key, value |-> 0, removed |-> {key}]
                /\ history' = [history EXCEPT !.access = Drop(@, key)]
           ELSE /\ access_times' = Store(access_times, key, now)
                /\ returned' = [op |-> "get", key |-> key, value |-> c.cache[key],
                                removed |-> {}]
                /\ history' = [history EXCEPT !.access = Store(@, key, now)]
                /\ UNCHANGED <<cache_entries, expiry_times>>
        /\ UNCHANGED now
        /\ UNCHANGED outsideCache

\* IntelligentCache.put
IntelligentCache_put(data, results, ttl_arg) ==
    LET key == generate_key(data)
        ttl == IF ttl_arg = 0 THEN default_ttl ELSE ttl_arg
        c == CacheState
        evicts == Cardinality(DOMAIN c.cache) >= max_size /\ key \notin DOMAIN c.cache
        victims == IF evicts /\ evict_candidates(c) # {}
                   THEN {{k} : k \in evict_candidates(c)} ELSE {{}}
    IN  /\ \E victim \in victims :
             LET c1 == IF victim = {} THEN c
                       ELSE remove_key(c, CHOOSE k \in victim : TRUE)
             IN  /\ SetCacheState([cache |-> Store(c1.cache, key, results),
                                   access_times |-> Store(c1.access_times, key, now),
                                   expiry_times |-> Store(c1.expiry_times, key, now + ttl)])
                 /\ returned' = [op |-> "put", key |-> key, value |-> results,
                                 removed |-> victim]
                 /\ history' = [put |-> Store(Forget(history.put, victim), key,
                                              [value |-> results, at |-> now, until |-> now + ttl]),
                                access |-> Store(Forget(history.access, victim), key, now)]
        /\ UNCHANGED now
        /\ UNCHANGED outsideCache

\* One round of _cleanup_expired: every entry with current_time > expiry is
\* removed.
cleanup_expired ==
    /\ \E key \in DOMAIN expiry_times : now > expiry_times[key]
    /\ LET gone == {key \in DOMAIN expiry_times : now > expiry_times[key]}
       IN  /\ cache_entries' = [k \in DOMAIN cache_entries \ gone |-> cache_entries[k]]
           /\ access_times' = [k \in DOMAIN access_times \ gone |-> access_times[k]]
           /\ expiry_times' = [k \in DOMAIN expiry_times \ gone |-> expiry_times[k]]
    /\ returned' = [op |-> "cleanup", key |-> << >>, value |-> 0, removed |-> {}]
    /\ history' = [history EXCEPT
                      !.access = Forget(@, {key \in DOMAIN expiry_times : now > expiry_times[key]})]
    /\ UNCHANGED now
    /\ UNCHANGED outsideCache

\* Time passes; the puts whose TTL has elapsed are no longer in force.
tick ==
    /\ now < MaxTime
    /\ now' = now + 1
    /\ returned' = [op |-> "tick", key |-> << >>, value |-> 0, removed |-> {}]
    /\ history' = [history EXCEPT
                      !.put = Forget(@, {k \in DOMAIN @ : now' > @[k].until})]
    /\ UNCHANGED <<cache_entries, access_times, expiry_times>>
    /\ UNCHANGED outsideCache

\* IntelligentCache.__init__
CacheInit ==
    /\ cache_entries = << >>
    /\ access_times = << >>
    /\ expiry_times = << >>
    /\ now = 0
    /\ returned = [op |-> "init", key |-> << >>, value |-> 0, removed |-> {}]
    /\ history = [put |-> << >>, access |-> << >>]

CacheNext ==
    \/ \E data \in CacheData : IntelligentCache_get(data)
    \/ \E data \in CacheData, results \in 1..NumResults, ttl_arg \in CacheTtls :
           IntelligentCache_put(data, results, ttl_arg)
    \/ cleanup_expired
    \/ tick

(* ====================================================================== *)
(* RedisRateLimiter, in-memory mode, one client                            *)
(* ====================================================================== *)
RateLimitValue == 1     \* RateLimit.limit of the short limit
RateBurst == 1          \* its burst_allowance
RateWindow == 2         \* its window_seconds, in clock ticks
RateLongLimit == 3      \* RateLimit.limit of the long limit (no burst)
RateLongWindow == 4     \* its window_seconds
RateMaxTime == 6        \* the clock stops here
EndpointLimitValue == 2   \* RateLimit.limit of the endpoint limit
EndpointBurst == 1        \* its burst_allowance
AnonymousLimitValue == 4  \* RateLimit.limit of the anonymous per-minute limit
AnonymousBurst == 2       \* its burst_allowance
MinuteWindow == 3         \* window_seconds of both, in clock ticks

ShortLimit ==
    [limit |-> RateLimitValue, window_seconds |-> RateWindow,
     limit_type |-> "per_minute",
     burst_allowance |-> RateBurst, description |-> "per minute"]
LongLimit ==
    [limit |-> RateLongLimit, window_seconds |-> RateLongWindow,
     limit_type |-> "per_hour",
     burst_allowance |-> 0, description |-> "per hour"]
OneLimit == <<ShortLimit>>
TwoLimits == <<ShortLimit, LongLimit>>

\* ENDPOINT_LIMITS["/api/v1/resolve"][0] and ANONYMOUS_LIMITS[0]: both
\* PER_MINUTE limits of scope PER_IP over the same window.
EndpointLimit ==
    [limit |-> EndpointLimitValue, window_seconds |-> MinuteWindow,
     limit_type |-> "per_minute",
     burst_allowance |-> EndpointBurst,
     description |-> "Identity resolution per minute"]
AnonymousLimit ==
    [limit |-> AnonymousLimitValue, window_seconds |-> MinuteWindow,
     limit_type |-> "per_minute",
     burst_allowance |-> AnonymousBurst,
     description |-> "Anonymous user per minute"]
\* _get_applicable_limits for an anonymous client on /api/v1/resolve, the
\* per-minute limits: the endpoint's limits come before the user type's.
ResolveLimits == <<EndpointLimit, AnonymousLimit>>

\* _get_cache_key for one client and a limit of scope PER_IP or PER_USER:
\* rate_limit:{client_id}:{limit_type}:{window_seconds}, with no suffix.
get_cache_key(limit) == <<"rate_limit", limit.limit_type, limit.window_seconds>>

\* self.local_cache[cache_key][limit.window_seconds]: the deque of the i-th
\* limit is the deque of the first limit of the list with its cache key.
cache_slot(limits, i) ==
    CHOOSE j \in 1..i :
        /\ get_cache_key(limits[j]) = get_cache_key(limits[i])
        /\ \A k \in 1..(j - 1) : get_cache_key(limits[k]) # get_cache_key(limits[i])

\* while requests and requests[0] < window_start: requests.popleft()
RECURSIVE drop_expired(_, _)
drop_expired(reqs, window_start) ==
    IF reqs # << >> /\ reqs[1] < window_start
    THEN drop_expired(Tail(reqs), window_start)
    ELSE reqs

\* A limit check that counts the request whether or not it admits it.
check_memory_limit_counting(reqs, limit, t) ==
    LET live == drop_expired(reqs, t - limit.window_seconds)
        current_count == Len(live) + 1
    IN  [requests |-> Append(live, t),
         allowed |-> current_count <= limit.limit + limit.burst_allowance,
         current_count |-> current_count,
         reset_time |-> t + limit.window_seconds]

\* _check_memory_limit
check_memory_limit(reqs, limit, t) ==
    LET live == drop_expired(reqs, t - limit.window_seconds)
        current_count == Len(live) + 1
        effective_limit == limit.limit + limit.burst_allowance
    IN  IF current_count <= effective_limit
        THEN [requests |-> Append(live, t), allowed |-> TRUE,
              current_count |-> current_count,
              reset_time |-> t + limit.window_seconds]
        ELSE [requests |-> live, allowed |-> FALSE,
              current_count |-> current_count,
              reset_time |-> t + limit.window_seconds]

\* The loop of check_rate_limit from the i-th limit on: the first limit
\* that does not allow the request ends it with a throttle event.
RECURSIVE check_limits(_, _, _, _)
check_limits(lc, limits, i, t) ==
    IF i > Len(limits)
    THEN [local_cache |-> lc, allowed |-> TRUE, exceeded |-> 0,
          current_count |-> 0, reset_time |-> 0]
    ELSE LET slot == cache_slot(limits, i)
             r == check_memory_limit(lc[slot], limits[i], t)
             lc1 == [lc EXCEPT ![slot] = r.requests]
         IN  IF r.allowed
             THEN check_limits(lc1, limits, i + 1, t)
             ELSE [local_cache |-> lc1, allowed |-> FALSE, exceeded |-> i,
                   current_count |-> r.current_count, reset_time |-> r.reset_time]

\* check_rate_limit for the client at the current time.
check_rate_limit(limits) ==
    LET r == check_limits(local_cache, limits, 1, current_time)
    IN  /\ local_cache' = r.local_cache
        /\ throttle' = [op |-> "check", allowed |-> r.allowed, exceeded |-> r.exceeded,
                        current_count |-> r.current_count, reset_time |-> r.reset_time]
        /\ admitted' = IF r.allowed THEN Append(admitted, current_time) ELSE admitted
        /\ UNCHANGED current_time
        /\ UNCHANGED outsideRate

\* Time passes.
rate_tick ==
    /\ current_time < RateMaxTime
    /\ current_time' = current_time + 1
    /\ throttle' = [op |-> "tick", allowed |-> TRUE, exceeded |-> 0,
                    current_count |-> 0, reset_time |-> 0]
    /\ UNCHANGED <<local_cache, admitted>>
    /\ UNCHANGED outsideRate

\* RedisRateLimiter.__init__ in demo mode, for a client with these limits.
RateInit(limits) ==
    /\ local_cache = [i \in 1..Len(limits) |-> << >>]
    /\ current_time = 0
    /\ throttle = [op |-> "init", allowed |-> TRUE, exceeded |-> 0,
                   current_count |-> 0, reset_time |-> 0]
    /\ admitted = << >>

RateNext ==
    \/ check_rate_limit(OneLimit)
    \/ rate_tick

GateNext ==
    \/ check_rate_limit(TwoLimits)
    \/ rate_tick

ResolveGateNext ==
    \/ check_rate_limit(ResolveLimits)
    \/ rate_tick

\* No call of resolve_identity under way.
ResolveIdle ==
    /\ resolve_input = << >>
    /\ resolve_output = << >>

\* A HouseholdService just constructed.
HouseholdIdle ==
    /\ households_cache = << >>
    /\ nsplit = 0

\* No call of assess_data_quality under way.
QualityIdle ==
    /\ quality_input = << >>
    /\ quality_output = << >>

(* ====================================================================== *)
(* resolve_identity: ranking of the matchers' results                      *)
(* ====================================================================== *)
(* Confidence scores are written in thousandths (0.95 is 950).  An         *)
(* identity key is a number; the order of the numbers is the              *)
(* lexicographic order of the keys.                                        *)
NumIdentities == 3      \* identity keys the matchers report
MaxMatcherOutput == 2   \* matches the deterministic matcher returns at most
max_matches == 10       \* matches[:10]
ai_min_confidence == 600   \* _apply_thresholds_and_rank: confidence_score >= 0.6
ml_max_confidence == 990   \* enhance_matches: min(enhanced_confidence, 0.99)

Match(id, confidence, fields, type) ==
    [identity_id |-> id, confidence_score |-> confidence,
     matched_fields |-> fields, match_type |-> type]

\* Sequences of distinct elements of S, up to n long, listed in the order
\* of their identity keys (the matchers walk their store in key order).
RECURSIVE OutputsOf(_, _)
OutputsOf(S, n) ==
    IF n = 0 THEN {<< >>}
    ELSE LET shorter == OutputsOf(S, n - 1)
         IN  shorter \cup
             {Append(q, m) : q \in {x \in shorter : Len(x) = n - 1}, m \in S}

Ascending(q) ==
    \A i \in 1..Len(q) - 1 :
        \/ q[i].identity_id < q[i + 1].identity_id
        \/ (q[i].identity_id = q[i + 1].identity_id
            /\ q[i].confidence_score > q[i + 1].confidence_score)

\* DeterministicMatcher.match: 1.0 on one exact field, 0.95 on a composite
\* key (here the three-field key).
DeterministicMatches ==
    {Match(id, 1000, 1, "deterministic_exact") : id \in 1..2}
    \cup {Match(id, 950, 3, "deterministic_composite") : id \in 1..2}
DeterministicOutputs ==
    {q \in OutputsOf(DeterministicMatches, MaxMatcherOutput) : Ascending(q)}

\* ProbabilisticMatcher.match: scores from its threshold 0.75 up to 1.0, no
\* matched_fields.
ProbabilisticOutputs ==
    OutputsOf({Match(id, c, 0, "probabilistic") : id \in 2..NumIdentities, c \in {750, 1000}}, 1)

\* FuzzyMatcher.match: fuzzy score (80..100) / 100 * 0.85, no matched_fields.
FuzzyOutputs ==
    OutputsOf({Match(NumIdentities, c, 0, "fuzzy") : c \in {700, 850}}, 1)

\* AIHybridMatcher.match: ensemble scores from 0.6 up to the cap of 0.99.
AiOutputs ==
    OutputsOf({Match(id, c, 3, "ai_hybrid") :
                  id \in {1, NumIdentities}, c \in {ai_min_confidence, ml_max_confidence}}, 1)

\* match_threshold values of the request (the default 0.85 and a low one).
MatchThresholds == {500, 850}

\* random.uniform(-0.1, 0.2) in _calculate_ml_confidence.
MlAdjustments == {-100, 0, 200}

\* The matchers resolve_identity calls; at most one of them raises.
Matchers == {"deterministic", "probabilistic", "fuzzy", "ai_hybrid"}

ResolveInputs ==
    [det : DeterministicOutputs, prob : ProbabilisticOutputs, fuzzy : FuzzyOutputs,
     ai : AiOutputs, match_threshold : MatchThresholds, use_ml : BOOLEAN,
     raises : Matchers \cup {"none"}]

Min(a, b) == IF a < b THEN a ELSE b
Max(a, b) == IF a > b THEN a ELSE b

\* max(m['confidence_score'] for m in matches)
RECURSIVE MaxConfidence(_)
MaxConfidence(q) ==
    IF Len(q) = 1 THEN q[1].confidence_score
    ELSE Max(q[1].confidence_score, MaxConfidence(Tail(q)))

\* MLEnhancedMatcher.enhance_matches for one match, the random adjustment
\* given.
enhance_match(m, adj) ==
    LET ml_confidence == Max(0, Min(1000, m.confidence_score + adj + 50 * m.matched_fields))
        enhanced_confidence == (7 * m.confidence_score + 3 * ml_confidence) \div 10
    IN  [m EXCEPT !.confidence_score = Min(enhanced_confidence, ml_max_confidence)]

\* [m for m in matches if m['confidence_score'] >= threshold]
RECURSIVE filter_threshold(_, _)
filter_threshold(q, threshold) ==
    IF q = << >> THEN << >>
    ELSE IF q[1].confidence_score >= threshold
    THEN <<q[1]>> \o filter_threshold(Tail(q), threshold)
    ELSE filter_threshold(Tail(q), threshold)

\* deduplicate_matches: the first match of each identity_id stays.
RECURSIVE dedupe_from(_, _)
dedupe_from(q, seen) ==
    IF q = << >> THEN << >>
    ELSE IF q[1].identity_id \in seen
    THEN dedupe_from(Tail(q), seen)
    ELSE <<q[1]>> \o dedupe_from(Tail(q), seen \cup {q[1].identity_id})

deduplicate_matches(q) == dedupe_from(q, {})

\* list.sort(key=confidence_score, reverse=True): stable, so matches of
\* equal confidence keep the order they had.
RECURSIVE sort_by_confidence(_)
sort_by_confidence(q) ==
    IF q = << >> THEN << >>
    ELSE LET rest == sort_by_confidence(SubSeq(q, 1, Len(q) - 1))
             m == q[Len(q)]
             k == Cardinality({i \in 1..Len(rest) :
                                  rest[i].confidence_score >= m.confidence_score})
         IN  SubSeq(rest, 1, k) \o <<m>> \o SubSeq(rest, k + 1, Len(rest))

\* The matches gathered by steps 1 to 4 of resolve_identity, before the ML
\* enhancement.
gathered_matches(in) ==
    LET m1 == in.det
        m2 == IF m1 = << >> \/ MaxConfidence(m1) < 950 THEN m1 \o in.prob ELSE m1
        m3 == m2 \o in.fuzzy
    IN  IF in.use_ml /\ in.raises # "ai_hybrid" THEN m3 \o in.ai ELSE m3

\* The matchers resolve_identity calls for this request, in call order.
called_matchers(in) ==
    {"deterministic", "fuzzy"}
    \cup (IF in.det = << >> \/ MaxConfidence(in.det) < 950 THEN {"probabilistic"} ELSE {})
    \cup (IF in.use_ml THEN {"ai_hybrid"} ELSE {})

\* An exception of a matcher reaches resolve_identity: the deterministic,
\* probabilistic and fuzzy matchers have no handler of their own,
\* AIHybridMatcher.match catches its exceptions and returns [].
matcher_exception(in) ==
    in.raises \in called_matchers(in) \ {"ai_hybrid"}

\* Threshold filter, deduplication, sort, top 10.
rank_matches(q, threshold) ==
    LET sorted == sort_by_confidence(deduplicate_matches(filter_threshold(q, threshold)))
    IN  SubSeq(sorted, 1, Min(Len(sorted), max_matches))

\* One call of resolve_identity.
resolve_identity ==
    /\ resolve_input # << >>
    /\ resolve_output = << >>
    /\ LET gathered == gathered_matches(resolve_input)
       IN  \E adj \in [1..Len(gathered) -> MlAdjustments] :
              LET enhanced == IF resolve_input.use_ml
                              THEN [i \in 1..Len(gathered) |-> enhance_match(gathered[i], adj[i])]
                              ELSE gathered
              IN  /\ resolve_input.use_ml \/ \A i \in 1..Len(gathered) : adj[i] = 0
                  /\ resolve_output' =
                        IF matcher_exception(resolve_input)
                        THEN [status |-> "error", matches |-> << >>]
                        ELSE [status |-> "success",
                              matches |-> rank_matches(enhanced, resolve_input.match_threshold)]
    /\ UNCHANGED resolve_input
    /\ UNCHANGED outsideResolve

\* A request to resolve_identity with the results its matchers will give.
ResolveInit ==
    /\ resolve_input \in ResolveInputs
    /\ resolve_output = << >>

ResolveNext == resolve_identity

(* ====================================================================== *)
(* HouseholdDetector and HouseholdService                                  *)
(* ====================================================================== *)
NumPersons == 2       \* identities given to detect_households
NumAddresses == 2     \* normalized addresses they live at
MaxSplits == 1        \* households split_household creates
MaxMembers == 3       \* members of all households together, when one is added
NoAge == -1           \* _calculate_age returned None (no dob, or unparsable)
adult_age == 18       \* age >= 18
mock_age == 36        \* age of the mock demographics, dob 1990-01-01

Persons == 1..NumPersons
Ages == {NoAge, 10, 40}
HEAD_OF_HOUSEHOLD == "head_of_household"

\* Relationships a caller passes to add_member_to_household.
AddRelationships == {HEAD_OF_HOUSEHOLD, "child"}

HouseholdMember(id, relationship, age) ==
    [identity_id |-> id, relationship |-> relationship, age |-> age]

Household(members) == [members |-> members, household_size |-> Len(members)]

\* q without its element at position i (list.pop(i)).
RemoveAt(q, i) == SubSeq(q, 1, i - 1) \o SubSeq(q, i + 1, Len(q))

\* [m for m in q if keep[m]]
RECURSIVE select_members(_, _)
select_members(q, keep) ==
    IF q = << >> THEN << >>
    ELSE IF q[1].identity_id \in keep
    THEN <<q[1]>> \o select_members(Tail(q), keep)
    ELSE select_members(Tail(q), keep)

\* sort(key=age, reverse=True) of a list of members; those of one age keep
\* their order.
RECURSIVE sort_by_age(_)
sort_by_age(q) ==
    IF q = << >> THEN << >>
    ELSE LET rest == sort_by_age(SubSeq(q, 1, Len(q) - 1))
             m == q[Len(q)]
             k == Cardinality({i \in 1..Len(rest) : rest[i].age >= m.age})
         IN  SubSeq(rest, 1, k) \o <<m>> \o SubSeq(rest, k + 1, Len(rest))

\* Index of the first member of q that satisfies the test, 0 if none.
FirstIndex(q, Test(_)) ==
    IF \E i \in 1..Len(q) : Test(q[i])
    THEN CHOOSE i \in 1..Len(q) : Test(q[i]) /\ \A j \in 1..i - 1 : ~Test(q[j])
    ELSE 0

IsAdult(m) == m.age >= adult_age
IsHead(m) == m.relationship = HEAD_OF_HOUSEHOLD

\* HouseholdDetector._determine_relationship; same_name is the outcome of
\* _similar_last_name.
determine_relationship(head_age, member_age, same_name) ==
    LET age_diff == IF head_age >= member_age THEN head_age - member_age
                    ELSE member_age - head_age
        could_be_spouse == age_diff <= 15 /\ ~(head_age < 16 \/ member_age < 16)
    IN  IF could_be_spouse THEN "spouse"
        ELSE IF head_age > member_age /\ age_diff >= 15 THEN "child"
        ELSE IF member_age > head_age /\ age_diff >= 15 THEN "parent"
        ELSE IF age_diff <= 20 /\ same_name THEN "sibling"
        ELSE IF age_diff >= 40
        THEN (IF head_age > member_age THEN "grandchild" ELSE "grandparent")
        ELSE IF same_name THEN "other_relative"
        ELSE "unrelated"

\* _create_single_household
create_single_household(member) ==
    Household(<<HouseholdMember(member.identity_id, HEAD_OF_HOUSEHOLD, member.age)>>)

\* _analyze_multi_person_household: the members whose age is known, oldest
\* first; the first adult, or else the oldest, is the head.
analyze_multi_person_household(members, same_name) ==
    LET with_age == sort_by_age(select_members(members,
                        {members[i].identity_id : i \in {j \in 1..Len(members) : members[j].age # NoAge}}))
        adult == FirstIndex(with_age, IsAdult)
        head == IF adult # 0 THEN adult ELSE IF with_age # << >> THEN 1 ELSE 0
    IN  IF head = 0 THEN Household(<< >>)
        ELSE Household(
               <<HouseholdMember(with_age[head].identity_id, HEAD_OF_HOUSEHOLD, with_age[head].age)>>
               \o [i \in 1..Len(with_age) - 1 |->
                     LET m == RemoveAt(with_age, head)[i]
                     IN  HouseholdMember(m.identity_id,
                            determine_relationship(with_age[head].age, m.age, same_name), m.age)])

\* The identities of the list that live at one address, in list order
\* (_group_by_address).
group_by_address(identities, address) ==
    select_members(identities,
        {identities[i].identity_id : i \in {j \in 1..Len(identities) : identities[j].address = address}})

\* detect_households on a list of identities; the households it returns
\* are kept in households_cache under their household_id.
detect_households ==
    /\ households_cache = << >>
    /\ nsplit = 0
    /\ \E age \in [Persons -> Ages], address \in [Persons -> 1..NumAddresses], same_name \in BOOLEAN :
          LET identities == [p \in Persons |->
                               [identity_id |-> p, age |-> age[p], address |-> address[p]]]
              inhabited == {a \in 1..NumAddresses : group_by_address(identities, a) # << >>}
              household_id(a) ==
                  IF Len(group_by_address(identities, a)) = 1
                  THEN <<"HH", "identity", group_by_address(identities, a)[1].identity_id>>
                  ELSE <<"HH", "address", a>>
              at(id) == CHOOSE a \in inhabited : household_id(a) = id
          IN  households_cache' =
                 [id \in {household_id(a) : a \in inhabited} |->
                    LET members == group_by_address(identities, at(id))
                    IN  IF Len(members) = 1
                        THEN create_single_household(members[1])
                        ELSE analyze_multi_person_household(members, same_name)]
    /\ UNCHANGED nsplit
    /\ UNCHANGED outsideHousehold

\* Members of all the households of the cache together.
RECURSIVE TotalMembers(_)
TotalMembers(ids) ==
    IF ids = {} THEN 0
    ELSE LET id == CHOOSE x \in ids : TRUE
         IN  Len(households_cache[id].members) + TotalMembers(ids \ {id})

\* add_member_to_household returning True.
add_member_to_household(household_id, identity_id, relationship) ==
    /\ TotalMembers(DOMAIN households_cache) < MaxMembers
    /\ household_id \in DOMAIN households_cache
    /\ LET household == households_cache[household_id]
       IN  /\ \A i \in 1..Len(household.members) :
                 household.members[i].identity_id # identity_id
           /\ households_cache' =
                 [households_cache EXCEPT ![household_id] =
                    [members |-> Append(household.members,
                                        HouseholdMember(identity_id, relationship, mock_age)),
                     household_size |-> household.household_size + 1]]
    /\ UNCHANGED nsplit
    /\ UNCHANGED outsideHousehold

\* _promote_new_head_of_household on a non-empty list of members, none of
\* them without an age.
promote_new_head_of_household(members) ==
    LET adults == sort_by_age(select_members(members,
                      {members[i].identity_id : i \in {j \in 1..Len(members) : IsAdult(members[j])}}))
        sorted == sort_by_age(members)
    IN  IF adults # << >>
        THEN LET h == CHOOSE i \in 1..Len(members) :
                         /\ members[i] = adults[1]
                         /\ \A j \in 1..i - 1 : members[j] # adults[1]
             IN  [members EXCEPT ![h].relationship = HEAD_OF_HOUSEHOLD]
        ELSE [sorted EXCEPT ![1].relationship = HEAD_OF_HOUSEHOLD]

\* remove_member_from_household finding the member.  Comparing the age of
\* a member without dob (None >= 18) raises in the promotion; the handler
\* returns False and the member stays removed.
remove_member_from_household(household_id, identity_id) ==
    /\ household_id \in DOMAIN households_cache
    /\ LET household == households_cache[household_id]
           i == FirstIndex(household.members, LAMBDA m : m.identity_id = identity_id)
           left == RemoveAt(household.members, i)
           raises == \E j \in 1..Len(left) : left[j].age = NoAge
       IN  /\ i # 0
           /\ households_cache' =
                 [households_cache EXCEPT ![household_id] =
                    [members |-> IF IsHead(household.members[i]) /\ left # << >> /\ ~raises
                                 THEN promote_new_head_of_household(left)
                                 ELSE left,
                     household_size |-> household.household_size - 1]]
    /\ UNCHANGED nsplit
    /\ UNCHANGED outsideHousehold

\* merge_households on two households of the cache.
merge_households(household_id1, household_id2) ==
    /\ household_id1 \in DOMAIN households_cache
    /\ household_id2 \in DOMAIN households_cache
    /\ LET household1 == households_cache[household_id1]
           household2 == households_cache[household_id2]
           all_members == household1.members \o household2.members
           merged_id == IF Len(household1.members) >= Len(household2.members)
                        THEN household_id1 ELSE household_id2
           secondary_id == IF merged_id = household_id1 THEN household_id2 ELSE household_id1
       IN  households_cache' =
              [id \in DOMAIN households_cache \ {secondary_id} |->
                 IF id = merged_id THEN Household(all_members) ELSE households_cache[id]]
    /\ UNCHANGED nsplit
    /\ UNCHANGED outsideHousehold

\* split_household returning the id of the new household.  With no head
\* among the members to move, the first adult of them (or else the first)
\* becomes head; a member without dob among them raises and nothing changes.
split_household(household_id, member_ids) ==
    /\ nsplit < MaxSplits
    /\ household_id \in DOMAIN households_cache
    /\ LET original == households_cache[household_id]
           ids == {original.members[i].identity_id : i \in 1..Len(original.members)}
           members_to_move == select_members(original.members, member_ids)
           remaining_members == select_members(original.members, ids \ member_ids)
           head == FirstIndex(members_to_move, IsHead)
           adult == FirstIndex(members_to_move, IsAdult)
           moved == IF head # 0 THEN members_to_move
                    ELSE [members_to_move EXCEPT
                            ![IF adult # 0 THEN adult ELSE 1].relationship = HEAD_OF_HOUSEHOLD]
           new_household_id == <<"HH", "SPLIT", nsplit + 1>>
       IN  /\ members_to_move # << >>
           /\ remaining_members # << >>
           /\ head # 0 \/ \A i \in 1..Len(members_to_move) : members_to_move[i].age # NoAge
           /\ households_cache' =
                 [id \in DOMAIN households_cache \cup {new_household_id} |->
                    IF id = new_household_id THEN Household(moved)
                    ELSE IF id = household_id THEN Household(remaining_members)
                    ELSE households_cache[id]]
    /\ nsplit' = nsplit + 1
    /\ UNCHANGED outsideHousehold

\* Identities the callers name: those detected and one more.
HouseholdIdentities == 1..NumPersons + 1

HouseholdNext ==
    \/ detect_households
    \/ \E h \in DOMAIN households_cache, id \in HouseholdIdentities, r \in AddRelationships :
          add_member_to_household(h, id, r)
    \/ \E h \in DOMAIN households_cache, id \in HouseholdIdentities :
          remove_member_from_household(h, id)
    \/ \E h1 \in DOMAIN households_cache, h2 \in DOMAIN households_cache :
          merge_households(h1, h2)
    \/ \E h \in DOMAIN households_cache, ids \in SUBSET HouseholdIdentities :
          split_household(h, ids)

(* ====================================================================== *)
(* DataQualityService.assess_data_quality                                  *)
(* ====================================================================== *)
(* A field value is named by what the validators look at in it.            *)
QualityFields == {"first_name", "last_name", "dob", "ssn"}

\* Values of a name field: blank, an ordinary name, one with a digit, with
\* another symbol, of one letter, of more than 50, of three words, a title.
NameValues == {"blank", "plain", "digit", "symbol", "short", "long", "many_words", "prefix"}
\* Values of dob: blank, a date in a known format, no known format, a date
\* later this year, a year over 120 years ago.
DateValues == {"blank", "plain", "unparsable", "future", "too_old"}
\* Values of ssn: blank, nine digits, four digits, nine digits of an invalid
\* pattern, another number of digits.
SsnValues == {"blank", "plain", "last4", "invalid_pattern", "bad_length"}

QualityValues(field) ==
    CASE field \in {"first_name", "last_name"} -> {"plain", "short", "many_words", "prefix"}
      [] field = "dob" -> {"plain", "unparsable"}
      [] field = "ssn" -> {"plain", "last4", "bad_length", "blank"}

\* field_weights, in hundredths.
field_weights(field) ==
    CASE field = "first_name" -> 15
      [] field = "last_name" -> 15
      [] field = "dob" -> 20
      [] field = "ssn" -> 25

ValidationResult(field, issues, score) ==
    [field_name |-> field, is_valid |-> issues = 0,
     quality_score |-> IF score > 0 THEN score ELSE 0]

\* NameValidator.validate_name
validate_name(name, field_name) ==
    IF name = "blank" THEN [field_name |-> field_name, is_valid |-> FALSE, quality_score |-> 0]
    ELSE LET patterns == CASE name = "digit" -> 2
                           [] name = "symbol" -> 1
                           [] OTHER -> 0
             length == CASE name = "short" -> 15
                         [] name = "long" -> 5
                         [] OTHER -> 0
             words == IF name = "many_words" THEN 5 ELSE 0
             prefix == IF field_name = "first_name" /\ name = "prefix" THEN 10 ELSE 0
         IN  ValidationResult(field_name,
                              patterns + (IF length > 0 THEN 1 ELSE 0),
                              100 - 20 * patterns - length - words - prefix)

\* DateValidator.validate_date for the dob field
validate_date(date_str, field_name) ==
    IF date_str = "blank" THEN [field_name |-> field_name, is_valid |-> FALSE, quality_score |-> 0]
    ELSE CASE date_str = "unparsable" -> ValidationResult(field_name, 1, 100 - 40)
           [] date_str = "future" -> ValidationResult(field_name, 1, 100 - 30)
           [] date_str = "too_old" -> ValidationResult(field_name, 1, 100 - 20)
           [] OTHER -> ValidationResult(field_name, 0, 100)

\* SSNValidator.validate_ssn with partial_ok at its default True
validate_ssn(ssn) ==
    IF ssn = "blank" THEN [field_name |-> "ssn", is_valid |-> TRUE, quality_score |-> 60]
    ELSE CASE ssn = "last4" -> ValidationResult("ssn", 0, 80)
           [] ssn = "invalid_pattern" -> ValidationResult("ssn", 1, 100 - 30)
           [] ssn = "bad_length" -> ValidationResult("ssn", 1, 100 - 40)
           [] OTHER -> ValidationResult("ssn", 0, 100)

validate_field(field, value) ==
    CASE field \in {"first_name", "last_name"} -> validate_name(value, field)
      [] field = "dob" -> validate_date(value, field)
      [] field = "ssn" -> validate_ssn(value)

\* weighted_score += result.quality_score * weight, over the fields given.
RECURSIVE weighted_score(_, _)
weighted_score(results, fields) ==
    IF fields = {} THEN 0
    ELSE LET f == CHOOSE x \in fields : TRUE
         IN  results[f].quality_score * field_weights(f)
             + weighted_score(results, fields \ {f})

\* total_weight += weight, over the fields given.
RECURSIVE total_weight(_)
total_weight(fields) ==
    IF fields = {} THEN 0
    ELSE LET f == CHOOSE x \in fields : TRUE
         IN  field_weights(f) + total_weight(fields \ {f})

\* The report of assess_data_quality; overall_score is the fraction
\* weighted_score / total_weight (0 when no field was assessed).
quality_report(demographic_data) ==
    LET field_results == [f \in DOMAIN demographic_data |->
                            validate_field(f, demographic_data[f])]
    IN  [field_results |-> field_results,
         weighted_score |-> weighted_score(field_results, DOMAIN field_results),
         total_weight |-> total_weight(DOMAIN field_results)]

\* overall_score of report a is lower than that of report b.
LowerScore(a, b) ==
    IF a.total_weight = 0 THEN b.total_weight > 0 /\ b.weighted_score > 0
    ELSE IF b.total_weight = 0 THEN FALSE
    ELSE a.weighted_score * b.total_weight < b.weighted_score * a.total_weight

\* The record with the field added.
WithField(in) ==
    [f \in DOMAIN in.record \cup {in.field} |->
        IF f = in.field THEN in.value ELSE in.record[f]]

\* assess_data_quality, first on the record, then on the record with the
\* field added.
assess_data_quality ==
    /\ quality_input # << >>
    /\ Len(quality_output) < 2
    /\ quality_output' =
          Append(quality_output,
                 quality_report(IF quality_output = << >> THEN quality_input.record
                                ELSE WithField(quality_input)))
    /\ UNCHANGED quality_input
    /\ UNCHANGED outsideQuality

\* Records over some of the fields, and a field they lack with its value.
QualityRecords ==
    UNION {{r \in [fs -> NameValues \cup DateValues \cup SsnValues] :
               \A f \in fs : r[f] \in QualityValues(f)} : fs \in SUBSET QualityFields}

QualityInit ==
    /\ quality_input \in
          {in \in [record : QualityRecords, field : QualityFields,
                   value : NameValues \cup DateValues \cup SsnValues] :
              /\ in.field \notin DOMAIN in.record
              /\ in.value \in (CASE in.field \in {"first_name", "last_name"} -> NameValues
                                 [] in.field = "dob" -> DateValues
                                 [] in.field = "ssn" -> SsnValues)}
    /\ quality_output = << >>

QualityNext == assess_data_quality

(* ---------------------------------------------------------------------- *)
(* Specifications                                                          *)
(* ---------------------------------------------------------------------- *)
vars == <<batchVars, poolVars, cacheVars, rateVars, resolveVars, householdVars, qualityVars>>

NoRequest == [request_id |-> 0, priority |-> 0, demographic_data |-> UnknownPerson]

\* WorkerPool and RealTimeProcessor after construction and start(), with n
\* calls of process_identity_resolution still to come.
PoolInit(n) ==
    /\ request_queue = << >>
    /\ result_callbacks = << >>
    /\ workers = [w \in 1..NumWorkers |-> [pc |-> "idle", req |-> 0]]
    /\ cache = << >>
    /\ requests = [r \in 1..n |-> NoRequest]
    /\ ppc = [r \in 1..n |-> "new"]
    /\ future = [r \in 1..n |-> [state |-> "pending", value |-> NoResult]]
    /\ result = [r \in 1..n |-> NoResult]
    /\ invoked = [r \in 1..n |-> 0]
    /\ running = TRUE
    /\ pills = 0

WorkerPoolOps ==
    \/ \E r \in DOMAIN ppc : resolve_register(r)
    \/ \E w \in 1..NumWorkers : worker_get(w)
    \/ \E w \in 1..NumWorkers : worker_finish(w)

PoolOps ==
    \/ \E r \in DOMAIN ppc : resolve_result(r)
    \/ \E r \in DOMAIN ppc : resolve_timeout(r)
    \/ WorkerPoolOps

\* Priorities of the requests of the real-time specification: HIGH, NORMAL.
PoolPriorities == 2..3

PoolNext ==
    \/ \E r \in DOMAIN ppc, rid \in 1..NumRequestIds, p \in PoolPriorities, d \in PoolData :
           resolve_begin(r, [request_id |-> rid, priority |-> p, demographic_data |-> d])
    \/ \E key \in DOMAIN cache : cache_expire(key)
    \/ PoolOps

\* The WorkerPool on its own: a client submits requests of every priority,
\* each with an id of its own, and the workers serve them.
QueueNext ==
    \/ \E r \in DOMAIN ppc, p \in ProcessingPriority :
           submit_request(r, [request_id |-> r, priority |-> p, demographic_data |-> UnknownPerson])
    \/ WorkerPoolOps

\* The WorkerPool told to stop: a client submits requests of two priorities
\* until stop() is called, the workers serve the queue and leave.
StopNext ==
    \/ \E r \in DOMAIN ppc, p \in PoolPriorities :
           running /\ submit_request(r, [request_id |-> r, priority |-> p, demographic_data |-> UnknownPerson])
    \/ WorkerPoolOps
    \/ \E w \in 1..NumWorkers : worker_exit(w)
    \/ stop_begin
    \/ stop_put

\* Both services after construction, no real-time request to come.
Init == BatchInit /\ PoolInit(0) /\ CacheInit /\ RateInit(<< >>) /\ ResolveIdle /\ HouseholdIdle /\ QualityIdle

\* Both services after construction, NumRequests calls of
\* process_identity_resolution to come.
RealTimeInit == BatchInit /\ PoolInit(NumRequests) /\ CacheInit /\ RateInit(<< >>) /\ ResolveIdle /\ HouseholdIdle /\ QualityIdle

\* Both services after construction, NumQueueRequests calls of
\* WorkerPool.submit_request to come.
QueueInit == BatchInit /\ PoolInit(NumQueueRequests) /\ CacheInit /\ RateInit(<< >>) /\ ResolveIdle /\ HouseholdIdle /\ QualityIdle

\* Both services after construction, NumStopRequests calls of
\* WorkerPool.submit_request to come before stop().
StopInit == BatchInit /\ PoolInit(NumStopRequests) /\ CacheInit /\ RateInit(<< >>) /\ ResolveIdle /\ HouseholdIdle /\ QualityIdle

\* The batch service under every API call, input and priority.
Spec == Init /\ [][BatchNext]_vars

\* The batch service at its concurrency cap.
CapSpec == Init /\ [][CapNext]_vars

\* The real-time path: cache, submission, workers, callbacks.
PoolSpec == RealTimeInit /\ [][PoolNext]_vars

\* The cache under every sequence of get, put, cleanup and clock ticks.
CacheSpec == Init /\ [][CacheNext]_vars

\* The rate gate with one limit.
RateInitOne == BatchInit /\ PoolInit(0) /\ CacheInit /\ RateInit(OneLimit) /\ ResolveIdle /\ HouseholdIdle /\ QualityIdle
RateSpec == RateInitOne /\ [][RateNext]_vars

\* The rate gate with a short and a long limit.
GateInit == BatchInit /\ PoolInit(0) /\ CacheInit /\ RateInit(TwoLimits) /\ ResolveIdle /\ HouseholdIdle /\ QualityIdle
GateSpec == GateInit /\ [][GateNext]_vars

\* The rate gate of an anonymous client on /api/v1/resolve.
ResolveGateInit == BatchInit /\ PoolInit(0) /\ CacheInit /\ RateInit(ResolveLimits) /\ ResolveIdle /\ HouseholdIdle /\ QualityIdle
ResolveGateSpec == ResolveGateInit /\ [][ResolveGateNext]_vars

\* Calls of resolve_identity, one for every combination of matcher outputs,
\* threshold and use_ml.
ResolveStart == BatchInit /\ PoolInit(0) /\ CacheInit /\ RateInit(<< >>) /\ ResolveInit /\ HouseholdIdle /\ QualityIdle
ResolveSpec == ResolveStart /\ [][ResolveNext]_vars

\* Calls of assess_data_quality on a record and on the record with one more
\* field.
QualityStart ==
    BatchInit /\ PoolInit(0) /\ CacheInit /\ RateInit(<< >>) /\ ResolveIdle /\ HouseholdIdle
    /\ QualityInit
QualitySpec == QualityStart /\ [][QualityNext]_vars

\* A HouseholdService from its construction on.
HouseholdSpec == Init /\ [][HouseholdNext]_vars

\* The worker pool shut down with requests queued.
StopSpec == StopInit /\ [][StopNext]_vars

\* The worker queue under requests of all priorities.
QueueSpec == QueueInit /\ [][QueueNext]_vars

(* ---------------------------------------------------------------------- *)
(* Properties of the real-time path                                        *)
(* ---------------------------------------------------------------------- *)
\* The request was handed to the worker pool and its caller has not
\* returned yet.
Submitted(r) == ppc[r] \in {"submitted", "waiting"}

\* C6: of the requests with the same cache fingerprint that are in flight
\* together after missing the cache, only one is submitted to the worker
\* pool.
C6_SingleFlight ==
    \A a, b \in DOMAIN ppc :
        (/\ a # b
         /\ generate_key(requests[a].demographic_data) = generate_key(requests[b].demographic_data)
         /\ Submitted(a))
        => ~Submitted(b)

\* C7: every callback registered with the worker pool is called at most
\* once, whatever the interleaving of submissions and workers, request ids
\* shared between requests included.
C7_CallbackAtMostOnce == \A r \in DOMAIN invoked : invoked[r] <= 1

\* Two requests shared a request id, the workers have served both, and the
\* callback registered last was called once while the other caller still
\* waits.
C7_Witness ==
    \E a, b \in DOMAIN ppc :
        /\ a # b
        /\ requests[a].request_id = requests[b].request_id
        /\ ppc[a] = "waiting" /\ future[a].state = "pending" /\ invoked[a] = 0
        /\ invoked[b] = 1
        /\ request_queue = << >>
        /\ \A w \in DOMAIN workers : workers[w].pc = "idle"

\* Entry a is to be served before entry b: higher priority (lower value),
\* or the same priority and submitted earlier.
ServedBefore(a, b) == a.prio < b.prio \/ (a.prio = b.prio /\ a.req < b.req)

\* C8: whenever an entry leaves the queue a worker holds it afterwards, and
\* it is the entry of the highest priority among the queued ones and the
\* earliest submitted of that priority.
C8_DequeueOrder ==
    [][Len(request_queue') < Len(request_queue)
       => \E w \in DOMAIN workers :
             /\ workers[w].pc = "idle" /\ workers'[w].pc = "got"
             /\ \A k \in 1..Len(request_queue) :
                   ~ServedBefore(request_queue[k],
                                 Entry(requests[workers'[w].req].priority, workers'[w].req))]_poolVars

\* C11: once stop() has been called and every worker has left its loop, no
\* request that submit_request accepted is still waiting in the queue: the
\* workers served the queued requests before they took the poison pills.
C11_QueueDrainedOnStop ==
    (\A w \in DOMAIN workers : workers[w].pc = "exited")
    => \A k \in 1..Len(request_queue) :
          request_queue[k].req # 0 => ppc[request_queue[k].req] # "waiting"

\* C12: a worker never takes up a request whose deadline had passed (its
\* caller's wait had timed out) when the worker took it from the queue.
C12_ExpiredRequestNotResolved ==
    [][\A w \in DOMAIN workers :
          (workers[w].pc = "idle" /\ workers'[w].pc = "got")
          => result[workers'[w].req].status # "timeout"]_poolVars

\* C13: a submission that finds the queue at capacity is rejected with
\* queue_full only if no accepted request of lower priority (higher value)
\* is waiting in the queue.
C13_OverflowRejectsLowPriority ==
    [][\A r \in DOMAIN ppc :
          (/\ ppc[r] = "new"
           /\ Len(request_queue) >= max_queue_size
           /\ result'[r].algorithm_used = "queue_full")
          => \A k \in 1..Len(request_queue) :
                ~(/\ request_queue[k].req # 0
                  /\ ppc[request_queue[k].req] = "waiting"
                  /\ request_queue[k].prio > requests'[r].priority)]_poolVars

(* ---------------------------------------------------------------------- *)
(* Properties of the cache                                                 *)
(* ---------------------------------------------------------------------- *)
\* C14: get(k) returns the value of the most recent put for k when that put
\* is still in force (its TTL has not elapsed, i.e. the clock is not past
\* put time + ttl, and the entry was not evicted) and None otherwise; after
\* a miss the cache holds no entry for k.
C14_GetReturnsLivePut ==
    [][returned'.op = "get"
       => LET key == returned'.key
          IN  /\ returned'.value = IF key \in DOMAIN history.put
                                   THEN history.put[key].value ELSE 0
              /\ (key \notin DOMAIN history.put => key \notin DOMAIN cache_entries')]_cacheVars

\* A get found an entry whose TTL had elapsed, returned None and removed it.
C14_Witness ==
    /\ returned.op = "get"
    /\ returned.value = 0
    /\ returned.removed = {returned.key}
    /\ returned.key \notin DOMAIN cache_entries

\* C15: the cache never holds more than max_size entries; a put of a new
\* key into a full cache removes exactly one entry, one whose last access
\* (put or get) is the oldest of the entries held.
C15_LruEviction ==
    [][returned'.op = "put"
       => /\ Cardinality(DOMAIN cache_entries') <= max_size
          /\ (Cardinality(DOMAIN cache_entries) >= max_size /\ returned'.key \notin DOMAIN cache_entries
              => /\ Cardinality(returned'.removed) = 1
                 /\ DOMAIN cache_entries' =
                       (DOMAIN cache_entries \ returned'.removed) \cup {returned'.key}
                 /\ \A victim \in returned'.removed, k \in DOMAIN cache_entries :
                       history.access[victim] <= history.access[k])]_cacheVars

\* A put into a full cache evicted an entry while the entry it kept had
\* been read by a get after it was stored: its last access is that get.
C15_Witness ==
    /\ returned.op = "put"
    /\ returned.removed # {}
    /\ Cardinality(DOMAIN cache_entries) = max_size
    /\ \E k \in DOMAIN cache_entries \cap DOMAIN history.put :
          /\ k # returned.key
          /\ history.access[k] > history.put[k].at

\* The normalized form of a query: its fields in lower case, as the matcher
\* compares them.
Normalized(data) ==
    [first_name |-> Lower(data.first_name),
     last_name |-> Lower(data.last_name),
     dob |-> Lower(data.dob)]

\* C16: a get under a query returns the result put, and still in force,
\* under any query with the same normalized form.
C16_NormalizedQueriesShareEntry ==
    [][returned'.op = "get"
       => \A q, d \in CacheData :
             (/\ generate_key(q) = returned'.key
              /\ Normalized(q) = Normalized(d)
              /\ generate_key(d) \in DOMAIN history.put)
             => returned'.value = history.put[generate_key(d)].value]_cacheVars

(* ---------------------------------------------------------------------- *)
(* Properties of the rate gate                                             *)
(* ---------------------------------------------------------------------- *)
\* Admitted requests whose timestamp is still inside the window at time t.
InWindow(times, t, window) ==
    Cardinality({k \in 1..Len(times) : times[k] >= t - window})

\* C17: with a single limit the gate admits a request if and only if the
\* admitted requests still inside the window, plus the new one, number at
\* most limit + burst; requests it rejected do not count.
C17_AdmitsWithinLimit ==
    [][throttle'.op = "check"
       => (throttle'.allowed
           <=> InWindow(admitted, current_time, RateWindow) + 1
                  <= RateLimitValue + RateBurst)]_rateVars

\* The gate has admitted more requests than one window holds: after a full
\* window and a rejection, the window opened and the next request passed.
C17_Witness ==
    /\ throttle.op = "check"
    /\ throttle.allowed
    /\ Len(admitted) > RateLimitValue + RateBurst
    /\ Len(local_cache[1]) = 1

\* C18: a rejection reports as reset time the instant the window of the
\* limit it names opens, i.e. when the oldest request that limit counts
\* leaves the window.
C18_ResetWhenWindowOpens ==
    [][(throttle'.op = "check" /\ ~throttle'.allowed)
       => throttle'.reset_time =
             local_cache'[throttle'.exceeded][1]
             + TwoLimits[throttle'.exceeded].window_seconds]_rateVars


\* C19: every result of resolve_identity has its matches sorted by
\* confidence descending, holds at most 10 matches, and has every
\* confidence within [0.6, 0.99], whatever the matchers returned and
\* whatever match_threshold and use_ml the request carries.
C19_RankedBoundedResult ==
    resolve_output # << >>
    => LET matches == resolve_output.matches
       IN  /\ \A i \in 1..Len(matches) - 1 :
                 matches[i].confidence_score >= matches[i + 1].confidence_score
           /\ Len(matches) <= max_matches
           /\ \A i \in 1..Len(matches) :
                 /\ matches[i].confidence_score >= ai_min_confidence
                 /\ matches[i].confidence_score <= ml_max_confidence

\* C20: in a result, two matches of equal confidence stand in the order of
\* descending count of matched fields and, that being equal too, of
\* ascending identity key, in whatever order the matchers produced them.
C20_TiesByFieldsThenKey ==
    resolve_output # << >>
    => LET matches == resolve_output.matches
       IN  \A i \in 1..Len(matches) - 1 :
              matches[i].confidence_score = matches[i + 1].confidence_score
              => \/ matches[i].matched_fields > matches[i + 1].matched_fields
                 \/ /\ matches[i].matched_fields = matches[i + 1].matched_fields
                    /\ matches[i].identity_id < matches[i + 1].identity_id


\* C21: after any sequence of detect_households, add_member_to_household,
\* remove_member_from_household, merge_households and split_household,
\* every household has exactly one member whose relationship is
\* head_of_household.
C21_ExactlyOneHead ==
    \A id \in DOMAIN households_cache :
        Cardinality({i \in 1..Len(households_cache[id].members) :
                        IsHead(households_cache[id].members[i])}) = 1


\* C22: when one matcher raises during a resolution, that matcher
\* contributes nothing and the resolution still completes with the other
\* matchers' matches: the request does not end in an error.
C22_MatcherFailureIsolated ==
    (resolve_output # << >> /\ resolve_input.raises # "none")
    => /\ resolve_output.status = "success"
       /\ \A i \in 1..Len(resolve_output.matches) :
             resolve_output.matches[i].match_type \notin
                 (CASE resolve_input.raises = "deterministic" ->
                           {"deterministic_exact", "deterministic_composite"}
                    [] resolve_input.raises = "probabilistic" -> {"probabilistic"}
                    [] resolve_input.raises = "fuzzy" -> {"fuzzy"}
                    [] resolve_input.raises = "ai_hybrid" -> {"ai_hybrid"})


\* The tasks after task tk has taken one step: gone, or at the loop top of
\* the next record.
TaskMoved(tk) ==
    \/ tasks' = tasks (-) SetToBag({tk})
    \/ \E pc \in {"record", "paused"} :
          tasks' = (tasks (-) SetToBag({tk}))
                   (+) SetToBag({[tk EXCEPT !.pc = pc, !.i = tk.i + 1, !.pending = TRUE]})

C24_ValidFieldNeverLowersScore ==
    (Len(quality_output) = 2
     /\ quality_input.value # "blank"
     /\ quality_output[2].field_results[quality_input.field].is_valid)
    => ~LowerScore(quality_output[2], quality_output[1])


C27_OneProcessingTaskPerJob ==
    \A j \in DOMAIN jobs : InFlight(tasks, j) <= 1


\* C26: once the caller's wait has timed out the request keeps its timeout
\* result, and when the worker finishes the request afterwards its result
\* is discarded: no future receives it, so it can neither reach the cache
\* nor be returned for any request.
C26_LateResultDiscarded ==
    [][/\ \A r \in DOMAIN result :
             result[r].status = "timeout" => result'[r] = result[r]
       /\ \A w \in 1..NumWorkers :
             (/\ workers[w].pc = "got"
              /\ workers'[w].pc # "got"
              /\ result[workers[w].req].status = "timeout")
             => /\ future' = future
                /\ cache' = cache]_poolVars


\* The worker threads run and a started submit_request runs to its end.
PoolFairness ==
    /\ \A w \in 1..NumWorkers : WF_vars(worker_get(w)) /\ WF_vars(worker_finish(w))
    /\ \A r \in 1..NumRequests : WF_vars(resolve_register(r))

\* The real-time path with its threads scheduled fairly.
PoolLiveSpec == RealTimeInit /\ [][PoolNext]_vars /\ PoolFairness

\* C29: every request whose submit_request returned True (the caller waits
\* on its future) eventually has its callback invoked, and no callback is
\* invoked more than once, also when a worker finished the request before
\* the callback was registered.
C29_CallbackEventuallyInvoked ==
    \A r \in 1..NumRequests :
        /\ (ppc[r] = "waiting") ~> (invoked[r] = 1)
        /\ [](invoked[r] <= 1)


\* C28: a request that check_rate_limit rejects leaves every limit's count
\* of requests in its window as it was: it uses no quota of the limits that
\* were checked, and passed, before the limit that rejected it.
C28_RejectionConsumesNoQuota ==
    [][(throttle'.op = "check" /\ ~throttle'.allowed)
       => \A i \in 1..Len(TwoLimits) :
             InWindow(local_cache'[i], current_time, TwoLimits[i].window_seconds)
             = InWindow(local_cache[i], current_time, TwoLimits[i].window_seconds)]_rateVars


\* C30: the endpoint limit and the anonymous per-minute limit of an
\* anonymous client on /api/v1/resolve count independently, each request
\* once per limit: the gate admits a request if and only if, for each of the
\* two limits, the requests admitted inside the window plus the new one
\* number at most limit + burst, so that exactly as many requests as the
\* endpoint limit and its burst are admitted within one window.
C30_IndependentCounters ==
    [][throttle'.op = "check"
       => (throttle'.allowed
           <=> \A i \in 1..Len(ResolveLimits) :
                  InWindow(admitted, current_time, ResolveLimits[i].window_seconds) + 1
                     <= ResolveLimits[i].limit + ResolveLimits[i].burst_allowance)]_rateVars

====
